---- MODULE Spec2Model ----
(***************************************************************************)
(* nitter-scraper: the pagination / retry state machine of                 *)
(* NitterScraper::search (src/src/lib.rs) together with the page parsing   *)
(* contract of parse_nitter_html (src/src/parse.rs) and the consumer loop  *)
(* of main (src/src/main.rs).                                              *)
(*                                                                         *)
(* Option<T> is modelled as a sequence of length 0 (None) or 1 (Some).     *)
(* The stream is an async generator: one atomic step of the model runs     *)
(* the code from one suspension point (.await) to the next.                *)
(***************************************************************************)
EXTENDS Integers, Sequences, FiniteSets, TLC

(***************************************************************************)
(* Bounds of the model.                                                    *)
(***************************************************************************)
MaxId == 2        \* tweet ids are 1..MaxId
MaxTs == 2        \* created_at_ts values are 1..MaxTs
MaxPageLen == 2   \* timeline items on one page of the general server
MaxPages == 2     \* page bodies the server delivers to one stream
MaxLimit == 1     \* configured limit is None or 0..MaxLimit
MaxToken == 1     \* continuation tokens are 1..MaxToken
MaxPinnedPageLen == 3 \* posts after the pinned one on a pinned-first page
MaxPinnedTs == 3  \* created_at_ts values on a pinned-first page are 1..MaxPinnedTs
MaxUrlToken == 2  \* continuation tokens of the request-sequence pages are 1..MaxUrlToken

(***************************************************************************)
(* Program constants.                                                      *)
(***************************************************************************)
MaxRetries == 10       \* lib.rs:230  if i < 10
MaxSleep == 300        \* lib.rs:232  min(300, 1 << i)
TooManyRequests == 429 \* lib.rs:228  StatusCode::TOO_MANY_REQUESTS
NotFoundStatus == 404  \* lib.rs:246  StatusCode::NOT_FOUND
ExitAccount == 10      \* main.rs:59,63,67  ExitCode::from(10)
ExitFailure == 1       \* main.rs:71  ExitCode::FAILURE
ExitSuccess == 0       \* main.rs:91  ExitCode::SUCCESS

VARIABLES
    limit,          \* NitterScraper.limit          : Option<usize>
    reorder_pinned, \* NitterScraper.reorder_pinned : bool
    skip_retweets,  \* NitterScraper.skip_retweets  : bool
    min_id,         \* NitterScraper.min_id         : Option<u128>
    state,          \* NitterScraper.state          : NitterSearchState
    pc,             \* where the stream is: "built" (before search), "ready"
                    \* (waiting to be polled), "send", "sleep", "text" (the
                    \* three .await points of scrape_page), "ended"
    i,              \* scrape_page: retry counter of the current call
    sleeps,         \* scrape_page: the sleeps of the current call, in order
    requests,       \* scrape_page: GET requests sent by the current call
    url,            \* scrape_page: query string of the request in flight
    outcome,        \* kind of the result of the last scrape_page call
    item,           \* what the last poll of the stream returned
    nyielded,       \* number of items the stream has yielded
    fetched,        \* number of page bodies received by the stream
    oldest_ts,      \* server of a reverse-chronological timeline: created_at_ts
                    \* of the last non-pinned post it has served
    hist            \* observer of one stream: page, the last document
                    \* received; recv, the posts of the pages parsed so far in
                    \* page order; out, the posts yielded so far in order

vars == <<limit, reorder_pinned, skip_retweets, min_id, state, pc, i, sleeps,
          requests, url, outcome, item, nyielded, fetched, oldest_ts, hist>>

config == <<limit, reorder_pinned, skip_retweets, min_id>>

(***************************************************************************)
(* Data.                                                                   *)
(***************************************************************************)
Option(S) == {<<>>} \cup {<<x>> : x \in S}

\* tweet.rs: the fields of Tweet the stream engine reads
Tweet == [id : 1..MaxId, created_at_ts : 1..MaxTs, retweet : BOOLEAN, pinned : BOOLEAN]

\* lib.rs NitterCursor
CursorInitial == [kind |-> "Initial", token |-> 0]
CursorEnd == [kind |-> "End", token |-> 0]
CursorMore(c) == [kind |-> "More", token |-> c]

\* error.rs NitterError; status is the code a Network error carries (0: none)
ErrParse(msg) == [kind |-> "Parse", status |-> 0, msg |-> msg]
ErrNetwork(status, msg) == [kind |-> "Network", status |-> status, msg |-> msg]
ErrProtected == [kind |-> "ProtectedAccount", status |-> 0, msg |-> ""]
ErrSuspended == [kind |-> "SuspendedAccount", status |-> 0, msg |-> ""]
ErrNotFound == [kind |-> "NotFound", status |-> 0, msg |-> ""]

\* Result<T, NitterError>
Ok(v) == [ok |-> TRUE, val |-> <<v>>, err |-> <<>>]
Err(e) == [ok |-> FALSE, val |-> <<>>, err |-> <<e>>]

\* Option<Result<Tweet, NitterError>>: what one poll of the stream returns
ItemNone == [kind |-> "None", tweet |-> <<>>, err |-> <<>>]
ItemOk(t) == [kind |-> "Ok", tweet |-> <<t>>, err |-> <<>>]
ItemErr(e) == [kind |-> "Err", tweet |-> <<>>, err |-> <<e>>]

\* lib.rs NitterSearchState::default()
DefaultState ==
    [tweets |-> <<>>, cursor |-> CursorInitial, count |-> 0, errored |-> FALSE,
     pinned |-> <<>>]

(***************************************************************************)
(* The server: HTTP statuses and page documents.                           *)
(* A document is what parse_nitter_html looks at: the protected marker,    *)
(* the first text node of the first error panel (which of the two known    *)
(* substrings it contains), the selected timeline items in DOM order and   *)
(* the href of the last "show more" link.  A timeline item is the Tweet it *)
(* parses to plus the name of a mandatory field it lacks ("" if none).     *)
(***************************************************************************)
TransportFailure == 0   \* send() itself failed: no status
Statuses == {TransportFailure, 200, NotFoundStatus, TooManyRequests, 500}

Tokens == 1..MaxToken

Node(t, missing) ==
    [id |-> t.id, created_at_ts |-> t.created_at_ts, retweet |-> t.retweet,
     pinned |-> t.pinned, missing |-> missing]

ValidNodes == {Node(t, "") : t \in Tweet}
BadNode == Node([id |-> 1, created_at_ts |-> 1, retweet |-> FALSE, pinned |-> FALSE],
                "missing time")

SeqsUpTo(S, n) == UNION {[1..k -> S] : k \in 0..n}

Panels == Option([suspended : BOOLEAN, not_found : BOOLEAN])

Doc(protected, panel, items, show_more) ==
    [protected |-> protected, error_panel |-> panel, items |-> items,
     show_more |-> show_more]

TimelineDocs ==
    {Doc(FALSE, <<>>, p, c) : p \in SeqsUpTo(ValidNodes, MaxPageLen), c \in Option(Tokens)}

BrokenDocs ==
    {Doc(FALSE, <<>>, p, c) :
        p \in {<<BadNode>>} \cup {<<n, BadNode>> : n \in ValidNodes},
        c \in Option(Tokens)}

MarkerDocs ==
    {Doc(b, e, p, <<>>) : b \in BOOLEAN, e \in Panels, p \in {<<>>, <<BadNode>>}}

Docs == TimelineDocs \cup BrokenDocs \cup MarkerDocs

\* The pages of a user timeline with a pinned post, as the front-end serves
\* them: the pinned post first, then posts at strictly decreasing timestamps,
\* the first of them later than the pinned post; the last page of the timeline.
PostNode(ts, retweet, pinned) ==
    [id |-> MaxId, created_at_ts |-> ts, retweet |-> retweet, pinned |-> pinned,
     missing |-> ""]

PinnedFirstItems ==
    {<<PostNode(tp, rp, TRUE)>> \o [k \in DOMAIN ts |-> PostNode(ts[k], rs[k], FALSE)] :
        <<tp, rp, ts, rs>> \in
            {q \in (1..MaxPinnedTs) \X BOOLEAN
                    \X SeqsUpTo(1..MaxPinnedTs, MaxPinnedPageLen)
                    \X SeqsUpTo(BOOLEAN, MaxPinnedPageLen) :
                /\ Len(q[3]) >= 1
                /\ Len(q[4]) = Len(q[3])
                /\ q[3][1] > q[1]
                /\ \A j \in 1..(Len(q[3]) - 1) : q[3][j] > q[3][j + 1]}}

PinnedFirstDocs == {Doc(FALSE, <<>>, p, <<>>) : p \in PinnedFirstItems}

(***************************************************************************)
(* parse.rs                                                                *)
(***************************************************************************)
\* parse.rs:126-131
parse_protected(doc) == doc.protected

\* parse.rs:135-142
parse_suspended(doc) == doc.error_panel # <<>> /\ doc.error_panel[1].suspended

\* parse.rs:144-151
parse_not_found(doc) == doc.error_panel # <<>> /\ doc.error_panel[1].not_found

\* parse.rs:77-118
parse_tweet(node) ==
    IF node.missing # ""
    THEN Err(ErrParse(node.missing))
    ELSE Ok([id |-> node.id, created_at_ts |-> node.created_at_ts,
             retweet |-> node.retweet, pinned |-> node.pinned])

\* faulty variant of parse_cursor: a page without a "show more" link resets the cursor
parse_cursor_reset(show_more) ==
    IF show_more # <<>> THEN CursorMore(show_more[1]) ELSE CursorInitial

\* parse.rs:328-341
parse_cursor(show_more) ==
    IF show_more # <<>> THEN CursorMore(show_more[1]) ELSE CursorEnd

\* faulty variant of parse_nitter_html: a post that does not parse is left
\* out and the rest of the page is returned
parse_nitter_html_lenient(doc) ==
    IF parse_protected(doc) THEN Err(ErrProtected)
    ELSE IF parse_suspended(doc) THEN Err(ErrSuspended)
    ELSE IF parse_not_found(doc) THEN Err(ErrNotFound)
    ELSE LET good == SelectSeq(doc.items, LAMBDA n : parse_tweet(n).ok)
         IN  Ok(<<[k \in DOMAIN good |-> parse_tweet(good[k]).val[1]],
                  parse_cursor(doc.show_more)>>)

\* faulty variant of parse_nitter_html: the posts are extracted before the
\* account states are checked
parse_nitter_html_late(doc) ==
    LET bad == {k \in DOMAIN doc.items : ~parse_tweet(doc.items[k]).ok}
    IN  IF bad # {}
        THEN parse_tweet(doc.items[CHOOSE k \in bad : \A j \in bad : k <= j])
        ELSE IF parse_protected(doc) THEN Err(ErrProtected)
        ELSE IF parse_suspended(doc) THEN Err(ErrSuspended)
        ELSE IF parse_not_found(doc) THEN Err(ErrNotFound)
        ELSE Ok(<<[k \in DOMAIN doc.items |-> parse_tweet(doc.items[k]).val[1]],
                  parse_cursor(doc.show_more)>>)

\* parse.rs:13-56: Ok(<<tweets, cursor>>) or Err(e)
parse_nitter_html(doc) ==
    IF parse_protected(doc) THEN Err(ErrProtected)
    ELSE IF parse_suspended(doc) THEN Err(ErrSuspended)
    ELSE IF parse_not_found(doc) THEN Err(ErrNotFound)
    ELSE LET bad == {k \in DOMAIN doc.items : ~parse_tweet(doc.items[k]).ok}
         IN  IF bad # {}
             THEN parse_tweet(doc.items[CHOOSE k \in bad : \A j \in bad : k <= j])
             ELSE Ok(<<[k \in DOMAIN doc.items |-> parse_tweet(doc.items[k]).val[1]],
                       parse_cursor(doc.show_more)>>)

(***************************************************************************)
(* lib.rs: the pure parts of the stream engine                             *)
(***************************************************************************)
\* lib.rs:76-90, 210-213: the query string of a request; the initial query
\* string of the configured query is written 0, a continuation token is itself
InitialParams == 0

\* faulty variant of get_params: the continuation token is not used
get_params_initial(cursor) == InitialParams

get_params(cursor) == IF cursor.kind = "Initial" THEN InitialParams ELSE cursor.token

\* faulty variant of limit_reached: off by one
limit_reached_late(lim, count) == lim # <<>> /\ count > lim[1]

\* lib.rs:121-125
limit_reached(lim, count) == lim # <<>> /\ count >= lim[1]

\* faulty variant of should_return_tweet: the min-id check is dropped
should_return_tweet_nofloor(tweet, pinned, min, reorder) ==
    IF reorder /\ pinned # <<>> /\ pinned[1].created_at_ts > tweet.created_at_ts
    THEN "Pinned"
    ELSE "Normal"

\* faulty variant of should_return_tweet: the timestamp comparison is reversed
should_return_tweet_reversed(tweet, pinned, min, reorder) ==
    IF reorder /\ pinned # <<>> /\ pinned[1].created_at_ts < tweet.created_at_ts
    THEN "Pinned"
    ELSE IF min # <<>> /\ tweet.id < min[1] THEN "None"
    ELSE "Normal"

\* lib.rs:182-206: ReturnedTweet::{Pinned, Normal, None}
should_return_tweet(tweet, pinned, min, reorder) ==
    IF reorder /\ pinned # <<>> /\ pinned[1].created_at_ts > tweet.created_at_ts
    THEN "Pinned"
    ELSE IF min # <<>> /\ tweet.id < min[1] THEN "None"
    ELSE "Normal"

\* faulty variant of is_account_error: NotFound falls into the catch-all arm
is_account_error_no404(e) == e.kind \in {"ProtectedAccount", "SuspendedAccount"}

\* lib.rs:159-163: the error arm that ends the stream without an item
is_account_error(e) == e.kind \in {"ProtectedAccount", "SuspendedAccount", "NotFound"}

\* faulty variant of may_retry: one more retry
may_retry_more(n) == n <= MaxRetries

\* lib.rs:230
may_retry(n) == n < MaxRetries

\* lib.rs:232: 1 << n
Pow2(n) == 2 ^ n

\* faulty variant of sleep_s: the cap is missing
sleep_s_uncapped(n) == Pow2(n)

\* lib.rs:232: std::cmp::min(300, 1 << i)
sleep_s(n) == IF Pow2(n) < MaxSleep THEN Pow2(n) ELSE MaxSleep

\* lib.rs:249: StatusCode::is_success
is_success(status) == status >= 200 /\ status < 300

\* faulty variant of retain_tweets: nothing is filtered
retain_tweets_all(tweets, skip) == tweets

\* lib.rs:266-271
retain_tweets(tweets, skip) ==
    IF skip THEN SelectSeq(tweets, LAMBDA t : ~t.retweet) ELSE tweets

\* faulty variant of stash_pinned: the min-id floor is not looked at
stash_pinned_nofloor(t, old, min) == <<t>>

\* lib.rs:277-285: the stash after a page whose last pinned post is t
stash_pinned(t, old, min) ==
    IF min # <<>>
    THEN IF t.id >= min[1] THEN <<t>> ELSE old
    ELSE <<t>>

\* lib.rs:266-290: scrape_page after a successful parse; the new state and the
\* tweets it returns
scrape_page_ok(st, tweets, cursor) ==
    LET st1 == [st EXCEPT !.cursor = cursor]
        kept == retain_tweets(tweets, skip_retweets)
    IN  IF reorder_pinned
        THEN LET pinned == SelectSeq(kept, LAMBDA t : t.pinned)
                 unpinned == SelectSeq(kept, LAMBDA t : ~t.pinned)
             IN  IF pinned # <<>>
                 THEN [state |-> [st1 EXCEPT !.pinned =
                                     stash_pinned(pinned[Len(pinned)], @, min_id)],
                       tweets |-> unpinned]
                 ELSE [state |-> st1, tweets |-> unpinned]
        ELSE [state |-> st1, tweets |-> kept]

\* the stream is suspended in scrape_page().await
Await == [kind |-> "Await", tweet |-> <<>>, err |-> <<>>]

\* faulty variant of after_loop: the stash is read but not taken
after_loop_keep(st) ==
    IF st.pinned # <<>>
    THEN [state |-> st, ret |-> ItemOk(st.pinned[1])]
    ELSE [state |-> st, ret |-> ItemNone]

\* lib.rs:173-178: after the loop
after_loop(st) ==
    IF st.pinned # <<>>
    THEN [state |-> [st EXCEPT !.pinned = <<>>], ret |-> ItemOk(st.pinned[1])]
    ELSE [state |-> st, ret |-> ItemNone]

\* faulty variant of loop: the End cursor does not stop the fetching
loop_ignore_end(st) ==
    IF st.tweets # <<>>
    THEN LET d == should_return_tweet(Head(st.tweets), st.pinned, min_id, reorder_pinned)
         IN  IF d = "Normal"
             THEN [state |-> [st EXCEPT !.count = @ + 1, !.tweets = Tail(@)],
                   ret |-> ItemOk(Head(st.tweets))]
             ELSE IF d = "Pinned"
             THEN [state |-> [st EXCEPT !.count = @ + 1, !.pinned = <<>>],
                   ret |-> ItemOk(st.pinned[1])]
             ELSE after_loop(st)
    ELSE [state |-> st, ret |-> Await]

\* faulty variant of loop: a head below the floor does not leave the loop but
\* goes on to the cursor test and the next page
loop_fetch_on_cutoff(st) ==
    LET d == IF st.tweets # <<>>
             THEN should_return_tweet(Head(st.tweets), st.pinned, min_id, reorder_pinned)
             ELSE "None"
    IN  IF d = "Normal"
        THEN [state |-> [st EXCEPT !.count = @ + 1, !.tweets = Tail(@)],
              ret |-> ItemOk(Head(st.tweets))]
        ELSE IF d = "Pinned"
        THEN [state |-> [st EXCEPT !.count = @ + 1, !.pinned = <<>>],
              ret |-> ItemOk(st.pinned[1])]
        ELSE IF st.cursor.kind = "End" THEN after_loop(st)
        ELSE [state |-> st, ret |-> Await]

\* faulty variant of loop: the queue is popped at the back
loop_lifo(st) ==
    IF st.tweets # <<>>
    THEN LET d == should_return_tweet(Head(st.tweets), st.pinned, min_id, reorder_pinned)
         IN  IF d = "Normal"
             THEN [state |-> [st EXCEPT !.count = @ + 1,
                                        !.tweets = SubSeq(@, 1, Len(@) - 1)],
                   ret |-> ItemOk(st.tweets[Len(st.tweets)])]
             ELSE IF d = "Pinned"
             THEN [state |-> [st EXCEPT !.count = @ + 1, !.pinned = <<>>],
                   ret |-> ItemOk(st.pinned[1])]
             ELSE after_loop(st)
    ELSE IF st.cursor.kind = "End" THEN after_loop(st)
    ELSE [state |-> st, ret |-> Await]

\* lib.rs:129-154: one iteration of the loop, up to a return, the break or the
\* call of scrape_page
loop(st) ==
    IF st.tweets # <<>>
    THEN LET d == should_return_tweet(Head(st.tweets), st.pinned, min_id, reorder_pinned)
         IN  IF d = "Normal"
             THEN [state |-> [st EXCEPT !.count = @ + 1, !.tweets = Tail(@)],
                   ret |-> ItemOk(Head(st.tweets))]
             ELSE IF d = "Pinned"
             THEN [state |-> [st EXCEPT !.count = @ + 1, !.pinned = <<>>],
                   ret |-> ItemOk(st.pinned[1])]
             ELSE after_loop(st)
    ELSE IF st.cursor.kind = "End" THEN after_loop(st)
    ELSE [state |-> st, ret |-> Await]

\* main.rs:55-74, 91: the exit code main returns on this poll result (None:
\* main goes on polling)
main_exit(it) ==
    IF it.kind = "None" THEN <<ExitSuccess>>
    ELSE IF it.kind = "Err"
    THEN IF it.err[1].kind \in {"NotFound", "SuspendedAccount", "ProtectedAccount"}
         THEN <<ExitAccount>>
         ELSE <<ExitFailure>>
    ELSE <<>>

(***************************************************************************)
(* The state machine.                                                      *)
(***************************************************************************)
\* NitterScraper::builder()...build() (main.rs:43-51): any configuration
Init ==
    /\ limit \in Option(0..MaxLimit)
    /\ reorder_pinned \in BOOLEAN
    /\ skip_retweets \in BOOLEAN
    /\ min_id \in Option(1..MaxId)
    /\ state = DefaultState
    /\ pc = "built"
    /\ i = 0
    /\ sleeps = <<>>
    /\ requests = 0
    /\ url = <<>>
    /\ outcome = "none"
    /\ item = ItemNone
    /\ nyielded = 0
    /\ fetched = 0
    /\ oldest_ts = MaxTs
    /\ hist = [page |-> <<>>, recv |-> <<>>, out |-> <<>>]

\* lib.rs:114-179: the closure of unfold returns Some((it, state)) or None;
\* unfold ends the stream on None.  The locals of scrape_page are gone.
Return(st, it) ==
    /\ state' = st
    /\ item' = it
    /\ nyielded' = IF it.kind = "None" THEN nyielded ELSE nyielded + 1
    /\ pc' = IF it.kind = "None" THEN "ended" ELSE "ready"
    /\ i' = 0
    /\ sleeps' = <<>>
    /\ requests' = 0
    /\ url' = <<>>

\* lib.rs:208-226: scrape_page from its call to the first send().await.  It is
\* called with a cursor that is not End only (lib.rs:150-152).
CallScrapePage(st) ==
    /\ state' = st
    /\ pc' = "send"
    /\ i' = 0
    /\ sleeps' = <<>>
    /\ requests' = 1
    /\ url' = <<get_params(st.cursor)>>
    /\ UNCHANGED <<item, nyielded>>

\* lib.rs:129-178: run the loop from its top
RunLoop(st) ==
    LET r == loop(st)
    IN  IF r.ret = Await THEN CallScrapePage(r.state) ELSE Return(r.state, r.ret)

\* faulty variant of ScrapeErr: the terminal-error flag is not set
ScrapeErr_noflag(e) ==
    /\ outcome' = e.kind
    /\ IF is_account_error(e)
       THEN Return(state, ItemNone)
       ELSE Return(state, ItemErr(e))

\* lib.rs:159-169: scrape_page returned Err(e)
ScrapeErr(e) ==
    /\ outcome' = e.kind
    /\ IF is_account_error(e)
       THEN Return(state, ItemNone)
       ELSE Return([state EXCEPT !.errored = TRUE], ItemErr(e))

\* lib.rs:110-114: search() resets the state and hands out the stream
Search ==
    /\ pc = "built"
    /\ state' = DefaultState
    /\ pc' = "ready"
    /\ UNCHANGED <<config, i, sleeps, requests, url, outcome, item, nyielded,
                   fetched, oldest_ts, hist>>

\* lib.rs:114-154: the consumer polls the stream; the closure runs up to its
\* return or to the first request
Poll ==
    /\ pc = "ready"
    /\ IF state.errored \/ limit_reached(limit, state.count)
       THEN Return(state, ItemNone)
       ELSE RunLoop(state)
    /\ UNCHANGED <<config, outcome, fetched, oldest_ts, hist>>

\* faulty variant of Response: a server error is retried like a 429
Response_retry5xx(statuses) ==
    /\ pc = "send"
    /\ \E status \in statuses :
       /\ is_success(status) => fetched < MaxPages
       /\ IF status = TransportFailure
          THEN ScrapeErr(ErrNetwork(0, "transport"))
          ELSE IF status = TooManyRequests \/ status >= 500
          THEN IF may_retry(i)
               THEN /\ i' = i + 1
                    /\ sleeps' = Append(sleeps, sleep_s(i + 1))
                    /\ pc' = "sleep"
                    /\ UNCHANGED <<state, requests, url, outcome, item, nyielded>>
               ELSE ScrapeErr(ErrNetwork(status, "received status code"))
          ELSE IF status = NotFoundStatus
          THEN ScrapeErr(ErrNotFound)
          ELSE IF ~is_success(status)
          THEN ScrapeErr(ErrNetwork(status, "received status code"))
          ELSE /\ pc' = "text"
               /\ i' = 0
               /\ sleeps' = <<>>
               /\ requests' = 0
               /\ UNCHANGED <<state, url, outcome, item, nyielded>>
    /\ UNCHANGED <<config, fetched, oldest_ts, hist>>

\* lib.rs:219-258: send() completes with one of statuses (TransportFailure:
\* with an error)
Response(statuses) ==
    /\ pc = "send"
    /\ \E status \in statuses :
       /\ is_success(status) => fetched < MaxPages
       /\ IF status = TransportFailure
          THEN ScrapeErr(ErrNetwork(0, "transport"))
          ELSE IF status = TooManyRequests
          THEN IF may_retry(i)
               THEN /\ i' = i + 1
                    /\ sleeps' = Append(sleeps, sleep_s(i + 1))
                    /\ pc' = "sleep"
                    /\ UNCHANGED <<state, requests, url, outcome, item, nyielded>>
               ELSE ScrapeErr(ErrNetwork(status, "received status code"))
          ELSE IF status = NotFoundStatus
          THEN ScrapeErr(ErrNotFound)
          ELSE IF ~is_success(status)
          THEN ScrapeErr(ErrNetwork(status, "received status code"))
          ELSE \* break response: the retry loop and its locals are left
               /\ pc' = "text"
               /\ i' = 0
               /\ sleeps' = <<>>
               /\ requests' = 0
               /\ UNCHANGED <<state, url, outcome, item, nyielded>>
    /\ UNCHANGED <<config, fetched, oldest_ts, hist>>

\* lib.rs:238-239: the sleep ends, the request is sent again
Wake ==
    /\ pc = "sleep"
    /\ pc' = "send"
    /\ requests' = requests + 1
    /\ UNCHANGED <<config, state, i, sleeps, url, outcome, item, nyielded,
                   fetched, oldest_ts, hist>>

\* faulty variant of ReceiveText: the loop of search is an if, a page that
\* adds nothing to the queue is not followed by another fetch
ReceiveText_noloop(doc) ==
    /\ fetched' = fetched + 1
    /\ LET r == parse_nitter_html(doc)
       IN  IF ~r.ok
           THEN ScrapeErr(r.err[1])
           ELSE LET sp == scrape_page_ok(state, r.val[1][1], r.val[1][2])
                    st == [sp.state EXCEPT !.tweets = @ \o sp.tweets]
                IN  /\ outcome' = "Ok"
                    /\ IF st.tweets # <<>>
                       THEN RunLoop(st)
                       ELSE Return(after_loop(st).state, after_loop(st).ret)
    /\ UNCHANGED config

\* lib.rs:260-290, 155-158: the body doc arrives and is parsed; the stream
\* goes on in the loop of search
ReceiveText(doc) ==
    /\ fetched' = fetched + 1
    /\ LET r == parse_nitter_html(doc)
       IN  IF ~r.ok
           THEN ScrapeErr(r.err[1])
           ELSE LET sp == scrape_page_ok(state, r.val[1][1], r.val[1][2])
                IN  /\ outcome' = "Ok"
                    /\ RunLoop([sp.state EXCEPT !.tweets = @ \o sp.tweets])
    /\ UNCHANGED config

\* response.text().await completes with one of docs
Text(docs) ==
    /\ pc = "text"
    /\ \E doc \in docs : ReceiveText(doc)
    /\ UNCHANGED <<oldest_ts, hist>>

\* The pages a reverse-chronological timeline can serve next: the posts that
\* are not pinned in non-increasing timestamp order, none later than the last
\* one served, and a pinned post on the first page only.
NonPinned(items) == SelectSeq(items, LAMBDA n : ~n.pinned)

ChronoDocs ==
    {d \in TimelineDocs :
        LET np == NonPinned(d.items)
        IN  /\ \A j, k \in DOMAIN np : j < k => np[j].created_at_ts >= np[k].created_at_ts
            /\ np # <<>> => np[1].created_at_ts <= oldest_ts
            /\ state.cursor.kind # "Initial" => np = d.items}
    \cup BrokenDocs \cup MarkerDocs

\* response.text().await completes with a page of a reverse-chronological
\* timeline
TextChrono ==
    /\ pc = "text"
    /\ \E doc \in ChronoDocs :
          /\ ReceiveText(doc)
          /\ oldest_ts' = IF parse_nitter_html(doc).ok /\ NonPinned(doc.items) # <<>>
                          THEN NonPinned(doc.items)[Len(NonPinned(doc.items))].created_at_ts
                          ELSE oldest_ts
    /\ UNCHANGED hist

Next ==
    \/ Search
    \/ Poll
    \/ Response(Statuses)
    \/ Wake
    \/ Text(Docs)

Spec == Init /\ [][Next]_vars

\* A stream with reordering enabled, no limit and no min-id, over a timeline
\* whose page starts with the pinned post
InitPinned ==
    /\ Init
    /\ reorder_pinned
    /\ limit = <<>>
    /\ min_id = <<>>

NextPinned ==
    \/ Search
    \/ Poll
    \/ Response(Statuses)
    \/ Wake
    \/ Text(PinnedFirstDocs)

SpecPinned == InitPinned /\ [][NextPinned]_vars

\* A stream with reordering enabled over a reverse-chronological timeline
InitChrono ==
    /\ Init
    /\ reorder_pinned

NextChrono ==
    \/ Search
    \/ Poll
    \/ Response(Statuses)
    \/ Wake
    \/ TextChrono

SpecChrono == InitChrono /\ [][NextChrono]_vars

\* parse.rs:47-50: the posts of doc in DOM order, none if its parse fails
parsed_tweets(doc) ==
    LET r == parse_nitter_html(doc) IN IF r.ok THEN r.val[1][1] ELSE <<>>

\* The observer: a received document (page is <<doc>>; <<>> if none was
\* received in this step) becomes the last page and its posts join recv, a
\* yielded post joins out
Record(page) ==
    hist' = [page |-> IF page # <<>> THEN page ELSE hist.page,
             recv |-> IF page # <<>> THEN hist.recv \o parsed_tweets(page[1])
                      ELSE hist.recv,
             out |-> IF nyielded' = nyielded + 1 /\ item'.kind = "Ok"
                     THEN Append(hist.out, item'.tweet[1])
                     ELSE hist.out]

\* lib.rs:114-154: a poll, observed
PollHist ==
    /\ pc = "ready"
    /\ IF state.errored \/ limit_reached(limit, state.count)
       THEN Return(state, ItemNone)
       ELSE RunLoop(state)
    /\ UNCHANGED <<config, outcome, fetched, oldest_ts>>
    /\ Record(<<>>)

\* response.text().await completes with one of docs, observed
TextHist(docs) ==
    /\ pc = "text"
    /\ \E doc \in docs : ReceiveText(doc) /\ Record(<<doc>>)
    /\ UNCHANGED oldest_ts

\* The pages served to an observed stream: a later and an earlier post, a
\* retweet and a pinned post, in any order on any page
HistNodes ==
    {Node([id |-> MaxId, created_at_ts |-> MaxTs, retweet |-> FALSE, pinned |-> FALSE], ""),
     Node([id |-> 1, created_at_ts |-> 1, retweet |-> FALSE, pinned |-> FALSE], ""),
     Node([id |-> MaxId, created_at_ts |-> 1, retweet |-> TRUE, pinned |-> FALSE], ""),
     Node([id |-> MaxId, created_at_ts |-> MaxTs, retweet |-> FALSE, pinned |-> TRUE], "")}

HistDocs ==
    {d \in TimelineDocs : \A k \in DOMAIN d.items : d.items[k] \in HistNodes}
    \cup BrokenDocs \cup MarkerDocs

NextHist ==
    \/ Search
    \/ PollHist
    \/ Response(Statuses)
    \/ Wake
    \/ TextHist(HistDocs)

\* An observed stream
SpecHist == Init /\ [][NextHist]_vars

\* The pages served to an observed stream with pinned posts: a pinned post
\* with the highest id, one with the lowest id, a pinned retweet, and a later
\* and an earlier post that are not pinned, in any order on any page
StashNodes ==
    {Node([id |-> MaxId, created_at_ts |-> MaxTs, retweet |-> FALSE, pinned |-> TRUE], ""),
     Node([id |-> 1, created_at_ts |-> 1, retweet |-> FALSE, pinned |-> TRUE], ""),
     Node([id |-> MaxId, created_at_ts |-> 1, retweet |-> TRUE, pinned |-> TRUE], ""),
     Node([id |-> MaxId, created_at_ts |-> MaxTs, retweet |-> FALSE, pinned |-> FALSE], ""),
     Node([id |-> 1, created_at_ts |-> 1, retweet |-> FALSE, pinned |-> FALSE], "")}

StashDocs ==
    {d \in TimelineDocs : \A k \in DOMAIN d.items : d.items[k] \in StashNodes}
    \cup BrokenDocs \cup MarkerDocs

NextStash ==
    \/ Search
    \/ PollHist
    \/ Response(Statuses)
    \/ Wake
    \/ TextHist(StashDocs)

\* An observed stream over pages with pinned posts
SpecStash == Init /\ [][NextStash]_vars

\* The pages served to a stream whose requests are observed: a post and a
\* retweet, in any order, with any of MaxUrlToken continuation tokens or none
UrlNodes ==
    {Node([id |-> MaxId, created_at_ts |-> MaxTs, retweet |-> FALSE, pinned |-> FALSE], ""),
     Node([id |-> MaxId, created_at_ts |-> MaxTs, retweet |-> TRUE, pinned |-> FALSE], "")}

UrlDocs ==
    {Doc(FALSE, <<>>, p, c) :
        p \in SeqsUpTo(UrlNodes, MaxPageLen), c \in Option(1..MaxUrlToken)}
    \cup BrokenDocs \cup MarkerDocs

NextUrl ==
    \/ Search
    \/ PollHist
    \/ Response(Statuses)
    \/ Wake
    \/ TextHist(UrlDocs)

\* An observed stream over pages with several continuation tokens
SpecUrl == Init /\ [][NextUrl]_vars

\* An observed stream whose requests are answered, whose sleeps end and whose
\* response bodies arrive (lib.rs:225, 238, 260: each .await completes)
SpecHistLive ==
    /\ SpecHist
    /\ WF_vars(Response(Statuses))
    /\ WF_vars(Wake)
    /\ WF_vars(TextHist(HistDocs))

\* faulty variant of SearchAgain: the progress state is not reset
SearchAgain_noreset ==
    /\ pc # "built"
    /\ state' = state
    /\ pc' = "ready"
    /\ i' = 0
    /\ sleeps' = <<>>
    /\ requests' = 0
    /\ url' = <<>>
    /\ outcome' = "none"
    /\ nyielded' = 0
    /\ fetched' = 0
    /\ UNCHANGED <<config, item, oldest_ts, hist>>

\* lib.rs:110-114: search() is called on a scraper that has run a stream
\* before; the earlier stream is dropped wherever it was, its state is the
\* state line 112 finds.  The observers of the stream start again; item, the
\* last poll result the consumer holds, stays.
SearchAgain ==
    /\ pc # "built"
    /\ state' = DefaultState
    /\ pc' = "ready"
    /\ i' = 0
    /\ sleeps' = <<>>
    /\ requests' = 0
    /\ url' = <<>>
    /\ outcome' = "none"
    /\ nyielded' = 0
    /\ fetched' = 0
    /\ UNCHANGED <<config, item, oldest_ts, hist>>

NextReuse ==
    \/ Search
    \/ SearchAgain
    \/ Poll
    \/ Response(Statuses)
    \/ Wake
    \/ Text(HistDocs)

\* A scraper whose search() is called any number of times
SpecReuse == Init /\ [][NextReuse]_vars

(***************************************************************************)
(* Properties.                                                             *)
(***************************************************************************)
AccountKinds == {"ProtectedAccount", "SuspendedAccount", "NotFound"}

\* this step yields an item
Yields == nyielded' = nyielded + 1

\* this step yields the stashed pinned post (with reordering enabled no post
\* with the pinned flag enters the queue)
YieldsPinned ==
    /\ Yields
    /\ reorder_pinned
    /\ item'.kind = "Ok"
    /\ item'.tweet[1].pinned

\* C1: with a min-id floor M configured, every post the stream yields has
\* id >= M, whether popped from the queue or taken from the pinned stash.
C1_MinIdFloor ==
    (min_id # <<>> /\ item.kind = "Ok") => item.tweet[1].id >= min_id[1]

\* C1 witness: the stashed pinned post has just been yielded ahead of a queue
\* head whose id is below the floor.
C1_Witness ==
    /\ min_id # <<>>
    /\ reorder_pinned
    /\ item.kind = "Ok"
    /\ item.tweet[1].pinned
    /\ state.tweets # <<>>
    /\ Head(state.tweets).id < min_id[1]

\* C2: with a limit L configured, the stream never yields more than L items.
C2_LimitBound == limit # <<>> => nyielded <= limit[1]

\* C2 witness: the limit is reached by a stashed pinned post yielded after the
\* queue was exhausted, the path that leaves the emitted-count alone.
C2_Witness ==
    /\ limit # <<>>
    /\ nyielded = limit[1]
    /\ state.count < nyielded
    /\ item.kind = "Ok"
    /\ item.tweet[1].pinned
    /\ state.tweets = <<>>

\* C3: with skip-retweets enabled no yielded post has its retweet flag set,
\* a stashed pinned post included.
C3_NoRetweets ==
    (skip_retweets /\ item.kind = "Ok") => ~item.tweet[1].retweet

\* C3 witness: with skip-retweets and reordering enabled a stashed pinned post
\* has been yielded after the page behind it.
C3_Witness ==
    /\ skip_retweets
    /\ reorder_pinned
    /\ item.kind = "Ok"
    /\ item.tweet[1].pinned
    /\ nyielded >= 2

\* C4: when scrape_page reports Protected, Suspended or NotFound the stream
\* ends in that poll, the poll returns no item (no error item, no stashed
\* pinned post), and on the first page nothing was yielded at all.
C4_AccountEndsSilently ==
    outcome \in AccountKinds =>
        /\ pc = "ended"
        /\ item = ItemNone
        /\ ~state.errored
        /\ state.cursor.kind = "Initial" => nyielded = 0

\* C4 witness: a later page reported an account state while a pinned post was
\* stashed; the stash was not yielded.
C4_Witness ==
    /\ outcome \in AccountKinds
    /\ state.pinned # <<>>
    /\ nyielded > 0
    /\ pc = "ended"

\* C5: after the stream has ended on Protected, Suspended or NotFound the
\* consumer learns the account state: main, reading what the stream returned,
\* exits with the account exit code and not as after a normal end.
C5_FinalStatusDistinguishes ==
    (pc = "ended" /\ outcome \in AccountKinds) => main_exit(item) = <<ExitAccount>>

\* C6: within one page fetch the k-th consecutive 429 (k = 1..9) is followed by
\* a sleep of min(300, 2^k) seconds: 2, 4, 8, 16, 32, 64, 128, 256, 300 in that
\* order before the tenth request; no sleep exceeds 300 seconds.
C6_BackoffSequence ==
    /\ Len(sleeps) = i
    /\ pc = "sleep" => i >= 1
    /\ \A k \in DOMAIN sleeps :
          /\ sleeps[k] <= 300
          /\ k <= 9 => sleeps[k] = <<2, 4, 8, 16, 32, 64, 128, 256, 300>>[k]
    /\ (pc = "send" /\ i = 9) => sleeps = <<2, 4, 8, 16, 32, 64, 128, 256, 300>>

\* C6 witness: nine consecutive 429s have been slept out and the tenth request
\* is in flight.
C6_Witness == pc = "send" /\ i = 9 /\ requests = 10

\* C7 as claimed: a tenth consecutive 429 yields the Network error, so one page
\* fetch sleeps at most nine times and sends at most ten requests.
C7_TenthIsError == Len(sleeps) <= 9 /\ requests <= 10

\* C7 amended: the eleventh consecutive 429 of one page fetch yields a Network
\* error carrying the status code in place of another sleep; a page fetch
\* sleeps at most ten times and sends at most eleven requests.
C7_EleventhIsError ==
    /\ [](Len(sleeps) <= 10 /\ requests <= 11)
    /\ [][/\ (pc = "send" /\ pc' = "sleep") => i < 10
          /\ (pc = "send" /\ item'.kind = "Err" /\ item'.err[1].status = 429) =>
                (i = 10 /\ Len(sleeps) = 10 /\ requests = 11)
          /\ (pc = "send" /\ i = 10 /\ pc' = "ready") =>
                (item'.kind = "Err" /\ item'.err[1].kind = "Network")]_vars

\* C7 witness: the Network error carrying 429 has been yielded.
C7_Witness ==
    /\ item.kind = "Err"
    /\ item.err[1] = ErrNetwork(429, "received status code")
    /\ state.errored

\* C8 as claimed: on a pinned-first page the pinned post is yielded strictly
\* after the first post whose timestamp is earlier than its own, or as the
\* very last item: when it is yielded, either the post yielded just before it
\* is earlier than it, or nothing is left in the queue.
C8_PinnedAfterFirstEarlier ==
    [][YieldsPinned =>
          \/ item.kind = "Ok" /\ item.tweet[1].created_at_ts < item'.tweet[1].created_at_ts
          \/ state'.tweets = <<>>]_vars

\* C8 amended: on a pinned-first page the pinned post is yielded after every
\* post whose timestamp is not earlier than its own and immediately before the
\* first post whose timestamp is earlier, or as the very last item if no post
\* is earlier; and a stream that ends normally has yielded it.
C8_PinnedBeforeFirstEarlier ==
    /\ [][YieldsPinned =>
            /\ item.kind = "Ok" =>
                  item.tweet[1].created_at_ts >= item'.tweet[1].created_at_ts
            /\ \A k \in DOMAIN state'.tweets :
                  state'.tweets[k].created_at_ts < item'.tweet[1].created_at_ts]_vars
    /\ []((pc = "ended" /\ outcome = "Ok") => state.pinned = <<>>)

\* C8 witness: the pinned post has been yielded between two posts of its page.
C8_Witness ==
    /\ item.kind = "Ok"
    /\ item.tweet[1].pinned
    /\ nyielded = 2
    /\ state.tweets # <<>>
    /\ Head(state.tweets).created_at_ts < item.tweet[1].created_at_ts

\* C9: with reordering enabled, over pages that are reverse-chronological
\* with a pinned post on the first page only, the yielded posts are in
\* non-increasing timestamp order, and the pinned post comes after every
\* yielded post at least as late as itself: a post yielded after the pinned
\* post is strictly earlier than it.
C9_ChronologicalOutput ==
    [][(Yields /\ item.kind = "Ok" /\ item'.kind = "Ok") =>
          /\ item.tweet[1].created_at_ts >= item'.tweet[1].created_at_ts
          /\ item.tweet[1].pinned =>
                item.tweet[1].created_at_ts > item'.tweet[1].created_at_ts]_vars

\* C9 witness: the pinned post of the first page has been yielded after a post
\* of the first page and ahead of the posts of the second page.
C9_Witness ==
    /\ fetched = 2
    /\ outcome = "Ok"
    /\ item.kind = "Ok"
    /\ item.tweet[1].pinned
    /\ nyielded = 2
    /\ Len(state.tweets) = 2

\* C10: within one stream the cursor moves along Initial -> More* -> End: it
\* never returns to Initial, never leaves End, and changes only in the step
\* in which a page was fetched and parsed successfully.
C10_CursorMonotonic ==
    [][/\ state'.cursor.kind = "Initial" => state.cursor.kind = "Initial"
       /\ state.cursor.kind = "End" => state'.cursor = state.cursor
       /\ state'.cursor # state.cursor => (pc = "text" /\ outcome' = "Ok")]_vars

\* C10 witness: the cursor has gone from Initial over More to End.
C10_Witness ==
    /\ state.cursor.kind = "End"
    /\ fetched = 2
    /\ outcome = "Ok"

\* C11: an operational error (Parse or Network) is yielded as exactly one
\* item and sets the terminal-error flag; with the flag set the only step of
\* the stream is the poll that ends it, which sends no request, receives no
\* page and yields nothing, whatever the stash and the cursor are.
C11_ErrorIsFinal ==
    /\ [](item.kind = "Err" =>
            /\ item.err[1].kind \in {"Parse", "Network"}
            /\ state.errored
            /\ pc = "ready")
    /\ [][/\ (~state.errored /\ state'.errored) =>
                (nyielded' = nyielded + 1 /\ item'.kind = "Err")
          /\ state.errored =>
                /\ pc = "ready" /\ item.kind = "Err"
                /\ pc' = "ended" /\ item' = ItemNone
                /\ nyielded' = nyielded
                /\ requests' = 0 /\ url' = <<>> /\ fetched' = fetched
                /\ state' = state]_vars

\* C11 witness: the stream has ended after an operational error on a later
\* page, with a pinned post still stashed and the cursor at More.
C11_Witness ==
    /\ state.errored
    /\ pc = "ended"
    /\ outcome \in {"Parse", "Network"}
    /\ state.pinned # <<>>
    /\ state.cursor.kind = "More"
    /\ nyielded >= 2

\* C12: once the emitted-count has reached the configured limit, the next
\* poll ends the stream: it sends no request and yields nothing, whatever
\* the queue, the stash and the cursor hold; the count reaches the limit only
\* between polls, and with limit 0 no request is ever sent.
C12_LimitStops ==
    /\ []((limit # <<>> /\ state.count >= limit[1]) =>
              (pc \in {"built", "ready", "ended"} /\ requests = 0 /\ url = <<>>))
    /\ [](limit = <<0>> => (fetched = 0 /\ requests = 0 /\ nyielded = 0))
    /\ [][(pc = "ready" /\ limit # <<>> /\ state.count >= limit[1]) =>
             /\ pc' = "ended" /\ item' = ItemNone
             /\ nyielded' = nyielded
             /\ requests' = 0 /\ fetched' = fetched
             /\ state' = state]_vars

\* C12 witness: the stream has ended at the limit with a post left in the
\* queue, a pinned post stashed and the cursor at More.
C12_Witness ==
    /\ limit # <<>>
    /\ state.count = limit[1]
    /\ pc = "ended"
    /\ state.tweets # <<>>
    /\ state.pinned # <<>>
    /\ state.cursor.kind = "More"

\* a post that scrape_page hands to the queue: not filtered out as a retweet
\* and not taken out as a pinned post
Enqueued(t) == ~(skip_retweets /\ t.retweet) /\ ~(reorder_pinned /\ t.pinned)

\* a yielded post that came from the stash
Stashed(t) == reorder_pinned /\ t.pinned

\* C13: the posts that are not moved to the stash are yielded in FIFO order:
\* the posts enqueued so far, in page order and in DOM order within a page,
\* are exactly the posts yielded from the queue so far, in the order of their
\* yield, followed by the queue; so the queue is appended at the back and
\* popped at the front only, and the output differs from page order only in
\* the position of the stashed pinned post.
C13_FifoOrder ==
    SelectSeq(hist.recv, Enqueued)
        = SelectSeq(hist.out, LAMBDA t : ~Stashed(t)) \o state.tweets

\* C13 witness: posts of two pages have been yielded, the second page behind
\* the first, with the stashed pinned post between two posts of the queue and
\* a post still queued.
C13_Witness ==
    /\ fetched = 2
    /\ Len(hist.out) >= 3
    /\ \E k \in 2..(Len(hist.out) - 1) : Stashed(hist.out[k])
    /\ hist.out[1] # hist.out[Len(hist.out)]
    /\ state.tweets # <<>>

C15_AccountStateOrder ==
    hist.page # <<>> =>
        LET d == hist.page[1]
        IN  /\ parse_protected(d) => outcome = "ProtectedAccount"
            /\ (~parse_protected(d) /\ parse_suspended(d)) =>
                    outcome = "SuspendedAccount"
            /\ (~parse_protected(d) /\ ~parse_suspended(d) /\ parse_not_found(d)) =>
                    outcome = "NotFound"
            /\ (parse_protected(d) \/ parse_suspended(d) \/ parse_not_found(d)) =>
                    (pc = "ended" /\ item = ItemNone /\ ~state.errored)

\* C15 witness: a page that matches both error-panel markers and carries a
\* post with a missing field has been received and has ended the stream on
\* the Suspended outcome.
C15_Witness ==
    /\ hist.page # <<>>
    /\ ~hist.page[1].protected
    /\ hist.page[1].error_panel = <<[suspended |-> TRUE, not_found |-> TRUE]>>
    /\ hist.page[1].items = <<BadNode>>
    /\ outcome = "SuspendedAccount"
    /\ pc = "ended"

\* C16: every call of search starts from fresh progress state.  Whatever the
\* previous stream left behind, a stream that has not yet received a page or
\* yielded an item has an empty queue, cursor Initial, emitted-count 0, the
\* terminal-error flag unset and no stash, and no request state of the
\* earlier stream survives; what it does next is a function of this state,
\* the configuration and the responses only.
C16_FreshState ==
    /\ (pc # "built" /\ nyielded = 0 /\ fetched = 0) => state = DefaultState
    /\ (pc = "ready" /\ nyielded = 0) =>
          (i = 0 /\ sleeps = <<>> /\ requests = 0 /\ url = <<>> /\ outcome = "none")

\* C16 witness: search has been called again after a stream that ended on an
\* operational error; the new stream is ready with the default state while
\* the consumer still holds the error item of the old one.
C16_Witness ==
    /\ pc = "ready"
    /\ nyielded = 0
    /\ item.kind = "Err"
    /\ state = DefaultState

\* C17: fetching is demand-driven.  While a fetch is under way the queue is
\* empty, the cursor is not End, the terminal-error flag is unset and the
\* limit is not reached, and the request carries the query string of the
\* cursor; exactly one request is outstanding while the stream waits for a
\* response and none while it sleeps; a stream that is not being polled
\* (before search, between polls, after its end) has no request at all.
C17_DemandDriven ==
    /\ pc \in {"send", "sleep", "text"} =>
          /\ state.tweets = <<>>
          /\ state.cursor.kind # "End"
          /\ ~state.errored
          /\ ~(limit # <<>> /\ state.count >= limit[1])
          /\ url = <<get_params(state.cursor)>>
    /\ pc = "send" => requests = i + 1
    /\ pc = "sleep" => requests = i
    /\ pc \in {"built", "ready", "ended", "text"} => requests = 0
    /\ pc \in {"built", "ready", "ended"} => url = <<>>

\* C17 witness: after the posts of the first page were yielded and the queue
\* ran empty, the request for the second page is in flight, with a pinned
\* post stashed.
C17_Witness ==
    /\ pc = "send"
    /\ fetched = 1
    /\ requests = 1
    /\ state.cursor.kind = "More"
    /\ state.pinned # <<>>
    /\ nyielded >= 1

\* the queue head has an id below the configured floor
BelowFloor ==
    /\ min_id # <<>>
    /\ state.tweets # <<>>
    /\ Head(state.tweets).id < min_id[1]

\* C18: the min-id cutoff.  With the queue head below the floor the stream
\* is between polls or ended and has no request; from then on the head is
\* not popped and the queue and the cursor stay as they are, so no post behind
\* the head is ever yielded, no page is fetched even with cursor More and no
\* error is yielded; the only item a poll can still yield is the stashed
\* pinned post, which empties the stash, and with the stash empty the poll
\* ends the stream: at most one more item.
C18_MinIdCutoff ==
    /\ [](BelowFloor => (pc \in {"ready", "ended"} /\ requests = 0))
    /\ [][BelowFloor =>
            /\ state'.tweets = state.tweets
            /\ state'.cursor = state.cursor
            /\ fetched' = fetched
            /\ requests' = 0
            /\ pc' \in {"ready", "ended"}
            /\ item'.kind # "Err"
            /\ item'.kind = "Ok" =>
                  /\ reorder_pinned
                  /\ state.pinned = <<item'.tweet[1]>>
                  /\ state'.pinned = <<>>
            /\ state.pinned = <<>> => (pc' = "ended" /\ item' = ItemNone)]_vars

\* C18 witness: the stream has ended at the cutoff after yielding the stashed
\* pinned post as its only item, with cursor More and, behind the head, a
\* queued post whose id is not below the floor.
C18_Witness ==
    /\ BelowFloor
    /\ pc = "ended"
    /\ Len(state.tweets) = 2
    /\ state.tweets[2].id >= min_id[1]
    /\ state.cursor.kind = "More"
    /\ nyielded = 1
    /\ state.count = 0
    /\ state.pinned = <<>>

\* the posts the received page hist.page adds to the queue
Contributed(h) == SelectSeq(parsed_tweets(h.page[1]), Enqueued)

\* C19: empty-page tolerance.  When a page is parsed that adds no post to
\* the queue and carries a continuation token, the same poll sends the
\* request for the next page and yields nothing.  A poll that has passed the
\* terminal-error and limit tests returns only by yielding an item, or by
\* ending the stream with the queue empty at cursor End, on an account state,
\* or with the queue head below the min-id floor.  The pages a stream can get
\* being finitely many, every fetch under way leads to the return of its poll.
C19_EmptyPageTolerance ==
    /\ [][/\ (/\ pc = "text"
              /\ parse_nitter_html(hist'.page[1]).ok
              /\ Contributed(hist') = <<>>
              /\ hist'.page[1].show_more # <<>>) =>
                 /\ pc' = "send"
                 /\ requests' = 1
                 /\ url' = hist'.page[1].show_more
                 /\ nyielded' = nyielded
                 /\ item' = item
          /\ (pc # "built" /\ pc' = "ready") => nyielded' = nyielded + 1
          /\ (/\ pc' = "ended"
              /\ ~state.errored
              /\ ~(limit # <<>> /\ state.count >= limit[1])) =>
                 /\ nyielded' = nyielded
                 /\ \/ pc \in {"send", "text"} /\ outcome' \in AccountKinds
                    \/ state'.tweets = <<>> /\ state'.cursor.kind = "End"
                    \/ BelowFloor']_vars
    /\ (pc \in {"send", "sleep", "text"}) ~> (pc \in {"ready", "ended"})

\* C19 witness: the first page held a retweet only, which the filter removed,
\* and a continuation token; within the same poll the second page was
\* fetched and its post yielded as the first item of the stream.
C19_Witness ==
    /\ skip_retweets
    /\ fetched = 2
    /\ Len(hist.recv) = 2
    /\ hist.recv[1].retweet
    /\ hist.out = <<hist.recv[2]>>
    /\ nyielded = 1

\* the number of times t occurs in seq
Count(seq, t) == Cardinality({k \in DOMAIN seq : seq[k] = t})

\* the stream has ended, and not on the limit, an operational error or an
\* account state
NormalEnd ==
    /\ pc = "ended"
    /\ ~state.errored
    /\ outcome \notin AccountKinds
    /\ ~(limit # <<>> /\ state.count >= limit[1])

\* the queue is exhausted for a poll: empty at cursor End, or its head is
\* below the min-id floor
Exhausted == (state.tweets = <<>> /\ state.cursor.kind = "End") \/ BelowFloor

\* a poll that passes the terminal-error and limit tests
PollRuns ==
    /\ pc = "ready"
    /\ ~state.errored
    /\ ~(limit # <<>> /\ state.count >= limit[1])

\* C20: with the queue exhausted and a pinned post stashed, a poll yields
\* the stash and clears it, and with the stash empty the next poll ends the
\* stream, so the stash is yielded once and last.  The stash is emptied only
\* by being yielded and a stream that ends normally has an empty stash: a
\* stashed pinned post that was not replaced by a later page has been yielded
\* before the end.  No post is yielded more often than the pages held it.
C20_StashYieldedOnce ==
    /\ [](NormalEnd => (state.pinned = <<>> /\ Exhausted))
    /\ [](\A t \in Tweet : Count(hist.out, t) <= Count(hist.recv, t))
    /\ [][/\ (PollRuns /\ Exhausted /\ state.pinned # <<>>) =>
                /\ item' = ItemOk(state.pinned[1])
                /\ nyielded' = nyielded + 1
                /\ state'.pinned = <<>>
                /\ state'.tweets = state.tweets
                /\ pc' = "ready"
                /\ Exhausted'
          /\ (PollRuns /\ Exhausted /\ state.pinned = <<>>) =>
                /\ pc' = "ended"
                /\ item' = ItemNone
                /\ nyielded' = nyielded
          /\ (state.pinned # <<>> /\ state'.pinned = <<>>) =>
                /\ nyielded' = nyielded + 1
                /\ item'.kind = "Ok"
                /\ item'.tweet[1] = state.pinned[1] \/ pc = "text"
                /\ Stashed(item'.tweet[1])]_vars

\* C20 witness: after the posts of the last page the stashed pinned post was
\* yielded as the last item, and the next poll has ended the stream.
C20_Witness ==
    /\ NormalEnd
    /\ state.cursor.kind = "End"
    /\ Len(hist.out) = 3
    /\ Stashed(hist.out[3])
    /\ ~Stashed(hist.out[1])
    /\ ~Stashed(hist.out[2])
    /\ hist.recv[1] = hist.out[3]

\* the posts of the received page hist.page that pass the retweet filter
Kept(h) == SelectSeq(parsed_tweets(h.page[1]), LAMBDA t : ~(skip_retweets /\ t.retweet))

\* the pinned posts among them, in page order
KeptPinned(h) == SelectSeq(Kept(h), LAMBDA t : t.pinned)

\* the stash the claim prescribes after that page, old being the stash before
\* it: the last pinned post of the page if there is one and no floor is
\* configured or its id is not below the floor, else old
StashRule(h, old) ==
    LET pins == KeptPinned(h)
    IN  IF pins # <<>> /\ (min_id = <<>> \/ pins[Len(pins)].id >= min_id[1])
        THEN <<pins[Len(pins)]>>
        ELSE old

\* C21: the stash update rule.  With reordering enabled no pinned post is
\* ever in the queue, so a pinned post below the floor at the head of a page
\* cannot be the head that stops the stream; the pinned post of a parsed
\* page replaces the stash if no floor is configured or its id is not below
\* the floor, else it is dropped and the stash stays as it was; the stash
\* holds one post at most and changes in no other way than by this rule and
\* by being yielded.  With reordering disabled the stash is always empty
\* and the pinned posts are queued and yielded in page order with the others.
C21_StashUpdateRule ==
    /\ [](Len(state.pinned) <= 1)
    /\ [](reorder_pinned => \A k \in DOMAIN state.tweets : ~state.tweets[k].pinned)
    /\ [](~reorder_pinned =>
            /\ state.pinned = <<>>
            /\ hist.out \o state.tweets
                  = SelectSeq(hist.recv, LAMBDA t : ~(skip_retweets /\ t.retweet)))
    /\ [][/\ (reorder_pinned /\ pc = "text" /\ parse_nitter_html(hist'.page[1]).ok) =>
                \/ state'.pinned = StashRule(hist', state.pinned)
                \/ /\ state'.pinned = <<>>
                   /\ nyielded' = nyielded + 1
                   /\ item' = ItemOk(StashRule(hist', state.pinned)[1])
          /\ (pc # "text" /\ state'.pinned # state.pinned) =>
                /\ pc = "ready"
                /\ state'.pinned = <<>>
                /\ item' = ItemOk(state.pinned[1])
          /\ (pc = "text" /\ ~parse_nitter_html(hist'.page[1]).ok) =>
                state'.pinned = state.pinned]_vars

\* C21 witness: with a floor configured a first page stashed its pinned post,
\* whose id is not below the floor; the second page led with a pinned post
\* below the floor, which was dropped: the stash is as it was, and the post
\* behind the dropped one has been yielded.
C21_Witness ==
    /\ reorder_pinned
    /\ min_id # <<>>
    /\ fetched = 2
    /\ hist.page # <<>>
    /\ Len(hist.page[1].items) = 2
    /\ hist.page[1].items[1].pinned
    /\ hist.page[1].items[1].id < min_id[1]
    /\ state.pinned # <<>>
    /\ state.pinned[1].id >= min_id[1]
    /\ item.kind = "Ok"
    /\ ~item.tweet[1].pinned
    /\ item.tweet[1].id = hist.page[1].items[2].id
    /\ pc = "ready"

\* C22: the request sequence.  The target of a request is the instance and
\* the path of the configured query, two fields no step of the stream
\* assigns, followed by the query string url.  Until the first page has been
\* received the query string is the initial query string of the query; after
\* that it is the continuation token of the page received last, as the page
\* gave it; it is fixed when the fetch of a page starts and every retry of
\* that page and the wait for its body keep it.
C22_RequestSequence ==
    /\ []((pc \in {"send", "sleep", "text"} /\ fetched = 0) => url = <<InitialParams>>)
    /\ []((pc \in {"send", "sleep", "text"} /\ fetched > 0) =>
            (hist.page # <<>> /\ hist.page[1].show_more # <<>>
                /\ url = hist.page[1].show_more))
    /\ [][/\ (pc \in {"send", "sleep"} /\ pc' \in {"send", "sleep", "text"}) => url' = url
          /\ (pc = "text" /\ pc' = "send") =>
                (url' = hist'.page[1].show_more /\ requests' = 1)
          /\ (pc = "ready" /\ pc' = "send") =>
                (requests' = 1 /\
                 url' = IF fetched = 0 THEN <<InitialParams>> ELSE hist.page[1].show_more)]_vars

\* C22 witness: after two pages the request for the third carries the token
\* of the second page and is being sent again after a 429, with the same
\* query string.
C22_Witness ==
    /\ pc = "send"
    /\ fetched = 2
    /\ requests = 2
    /\ url = <<MaxUrlToken>>
    /\ hist.page[1].show_more = <<MaxUrlToken>>

\* the document d reaches the extraction of its posts and one of its selected
\* post nodes lacks a mandatory field
BrokenPage(d) ==
    /\ ~d.protected
    /\ d.error_panel # <<>> => (~d.error_panel[1].suspended /\ ~d.error_panel[1].not_found)
    /\ \E k \in DOMAIN d.items : d.items[k].missing # ""

\* the last item is a Parse error
ParseErrorYielded == item.kind = "Err" /\ item.err[1].kind = "Parse"

\* the step in which a broken page is received: nothing of the page is
\* enqueued or stashed, the cursor stays, the Parse error is yielded
BrokenPageStep ==
    (pc = "text" /\ BrokenPage(hist'.page[1])) =>
        /\ item'.kind = "Err"
        /\ item'.err[1].kind = "Parse"
        /\ nyielded' = nyielded + 1
        /\ pc' = "ready"
        /\ state' = [state EXCEPT !.errored = TRUE]
        /\ hist'.recv = hist.recv
        /\ hist'.out = hist.out

\* C23 as claimed: page parsing is all-or-nothing, the Parse error is the
\* final item, and every eligible post of the earlier pages has been yielded
\* before the error: nothing of them is left in the queue or in the stash.
C23_AllEarlierYielded ==
    /\ [](ParseErrorYielded => (state.tweets = <<>> /\ state.pinned = <<>>))
    /\ [][/\ BrokenPageStep
          /\ ParseErrorYielded => (pc' = "ended" /\ nyielded' = nyielded)]_vars

\* C23 amended: page parsing is all-or-nothing: a page one of whose selected
\* post nodes lacks a mandatory field gives a Parse error, none of its posts
\* is enqueued or stashed, valid ones ahead of the broken one included, the
\* cursor stays, and the stream yields the Parse error as its final item.
\* Every post of the earlier pages that entered the queue has been yielded
\* before the error; a pinned post stashed from an earlier page may still be
\* in the stash and is then never yielded.
C23_AllOrNothing ==
    /\ [](ParseErrorYielded =>
            /\ state.tweets = <<>>
            /\ state.errored
            /\ SelectSeq(hist.recv, Enqueued)
                  = SelectSeq(hist.out, LAMBDA t : ~Stashed(t)))
    /\ [][/\ BrokenPageStep
          /\ ParseErrorYielded =>
                (pc' = "ended" /\ nyielded' = nyielded /\ state' = state)]_vars

\* C23 witness: the second page had a valid pinned post ahead of a post
\* without a time; its Parse error has been yielded after the post of the
\* first page, the cursor is still the one of the first page, and the pinned
\* post stashed from the first page is still stashed.
C23_Witness ==
    /\ ParseErrorYielded
    /\ fetched = 2
    /\ Len(hist.page[1].items) = 2
    /\ hist.page[1].items[1].missing = ""
    /\ hist.page[1].items[1].pinned
    /\ hist.page[1].items[2] = BadNode
    /\ Len(hist.out) = 1
    /\ state.pinned # <<>>
    /\ state.pinned[1] = hist.recv[1]
    /\ state.cursor.kind = "More"
    /\ Len(hist.recv) = 2

====
